---- MODULE Spec2Model ----
(***************************************************************************)
(* Model of examples/hf_serialization.py: the save path (serialize_model    *)
(* with its existence probe check_file_exists) and the load path           *)
(* (load_model), over one artifact location {base}/{prefix} that holds a   *)
(* config artifact and a tensor artifact.                                  *)
(***************************************************************************)
EXTENDS Integers, Sequences, FiniteSets, TLC

\* Bound on the number of serialize_model / load_model calls in a behaviour.
MaxCalls == 2

Procs == {1, 2}

\* "config" is {dir_prefix}-config.json, "tensors" is {dir_prefix}.tensors.
Artifacts == {"config", "tensors"}

NoFile == [present |-> FALSE, data |-> << >>]

----------------------------------------------------------------------------
(* Inputs of the calls *)

\* A tensor collection is an ordered list of named tensors.
Tensor(n, d, v) == [name |-> n, dtype |-> d, val |-> v]

TensorCollections ==
    { << Tensor("w1", "f32", 1), Tensor("b1", "f32", 0) >>,
      << Tensor("w1", "f32", 2) >> }

\* A torch module: its tensors, whether it has a to_dict method and the
\* value of the one entry ("h") of the mapping to_dict returns.
Models == [T : TensorCollections, to_dict : BOOLEAN, h : {4}]

\* The config argument of serialize_model: None, a dict, or an object
\* with a to_dict method.
NoneConfig == [kind |-> "none", h |-> 0]

ConfigArgs == {NoneConfig, [kind |-> "dict", h |-> 8], [kind |-> "obj", h |-> 4]}

----------------------------------------------------------------------------
(* json.dumps / json.loads on the mappings {"h": n}, n a single digit *)

json_dumps(h) == << 123, 34, 104, 34, 58, 32, 48 + h, 125 >>

json_valid(bytes) ==
    /\ Len(bytes) = 8
    /\ SubSeq(bytes, 1, 6) = << 123, 34, 104, 34, 58, 32 >>
    /\ bytes[7] \in 48..57
    /\ bytes[8] = 125

json_loads(bytes) == bytes[7] - 48

----------------------------------------------------------------------------
(* The tensor artifact: TensorSerializer / TensorDeserializer *)

Magic == 84

NameId(n) == IF n = "w1" THEN 1 ELSE 2

NameOf(i) == IF i = 1 THEN "w1" ELSE "b1"

DtypeTag(d) == IF d = "f32" THEN 1 ELSE 2

DtypeOf(t) == IF t = 1 THEN "f32" ELSE "f16"

RECURSIVE EncodeRecords(_)
EncodeRecords(T) ==
    IF T = << >> THEN << >>
    ELSE << NameId(Head(T).name), DtypeTag(Head(T).dtype), Head(T).val >>
         \o EncodeRecords(Tail(T))

\* write_module: a header (magic, record count) and one record per tensor.
write_module(T) == << Magic, Len(T) >> \o EncodeRecords(T)

\* The part of the artifact on storage when the write has gone half way.
write_module_head(T) == SubSeq(write_module(T), 1, 2 + 3 * (Len(T) \div 2) + 1)

\* The directory the deserializer reads is usable iff the declared records
\* lie within the stream.
directory_valid(bytes) ==
    /\ Len(bytes) >= 2
    /\ bytes[1] = Magic
    /\ Len(bytes) = 2 + 3 * bytes[2]

RECURSIVE DecodeRecords(_)
DecodeRecords(bytes) ==
    IF Len(bytes) < 3 THEN << >>
    ELSE << Tensor(NameOf(bytes[1]), DtypeOf(bytes[2]), bytes[3]) >>
         \o DecodeRecords(SubSeq(bytes, 4, Len(bytes)))

read_directory(bytes) == DecodeRecords(SubSeq(bytes, 3, Len(bytes)))

----------------------------------------------------------------------------
VARIABLES
    kind,    \* "local": base is a local directory; "remote": a storage URI
    store,   \* the two artifacts at the location
    pc,      \* where each caller is in its call
    call,    \* the arguments and locals of each caller's serialize_model call
    ld,      \* the arguments and locals of each caller's load_model call
    prev,    \* the call that ended last
    hist,    \* counts of what has happened so far
    calls    \* number of calls started

vars == << kind, store, pc, call, ld, prev, hist, calls >>

BlankCall ==
    [op |-> "none",
     model |-> [T |-> << >>, to_dict |-> FALSE, h |-> 4],
     config |-> NoneConfig,
     force |-> FALSE,
     config_file_exists |-> FALSE,
     weights_file_exists |-> FALSE,
     opened |-> {},
     streams |-> {},
     err |-> "none",
     start |-> [a \in Artifacts |-> FALSE],
     seen |-> [a \in Artifacts |-> NoFile],
     probed |-> {}]

BlankLoad ==
    [config_class |-> FALSE,
     dtype |-> "none",
     directory |-> << >>,
     first |-> "none",
     fallbacks |-> 0,
     fallback_err |-> "none",
     have_config |-> FALSE,
     config |-> 0,
     built |-> FALSE,
     bound |-> FALSE,
     result |-> << >>]

BlankPrev ==
    [op |-> "none", outcome |-> "none", model |-> BlankCall.model,
     config |-> NoneConfig, force |-> FALSE, startEmpty |-> FALSE,
     midwrite |-> FALSE]

Init ==
    /\ kind \in {"local", "remote"}
    /\ store = [a \in Artifacts |-> NoFile]
    /\ pc = [p \in Procs |-> "idle"]
    /\ call = [p \in Procs |-> BlankCall]
    /\ ld = [p \in Procs |-> BlankLoad]
    /\ prev = BlankPrev
    /\ hist = [nwrites |-> [a \in Artifacts |-> 0], nempty |-> 0, overlap |-> FALSE]
    /\ calls = 0

----------------------------------------------------------------------------
(* The storage stream adapter and the existence probe *)

os_path_exists(f) == kind = "local" /\ f.present

\* open_stream(file, "rb"): a stream over the artifact's bytes.  For a
\* missing artifact the adapter either signals NotFound or hands back a
\* stream that is immediately empty; `miss` is the outcome.
open_stream_rb(f, miss) ==
    IF f.present THEN [err |-> "none", bytes |-> f.data]
    ELSE IF miss = "NotFound" THEN [err |-> "NotFound", bytes |-> << >>]
    ELSE [err |-> "none", bytes |-> << >>]

read(bytes, n) == SubSeq(bytes, 1, IF Len(bytes) < n THEN Len(bytes) ELSE n)

\* check_file_exists without the os.path.exists shortcut.
check_file_exists_stream_only(f, miss) ==
    LET s == open_stream_rb(f, miss)
    IN  IF s.err # "none" THEN [err |-> s.err, value |-> FALSE]
        ELSE [err |-> "none", value |-> read(s.bytes, 1) # << >>]

check_file_exists(f, miss) ==
    IF os_path_exists(f) THEN [err |-> "none", value |-> TRUE]
    ELSE LET s == open_stream_rb(f, miss)
         IN  IF s.err # "none" THEN [err |-> s.err, value |-> FALSE]
             ELSE [err |-> "none", value |-> read(s.bytes, 1) # << >>]

MissOutcomes == {"NotFound", "empty"}

----------------------------------------------------------------------------
(* serialize_model *)

\* if config is None: config = model
EffectiveConfig(c) ==
    IF c.config.kind = "none" THEN [kind |-> "model", h |-> c.model.h]
    ELSE c.config

config_is_not_None(c) == EffectiveConfig(c).kind # "none"

hasattr_to_dict(c) ==
    \/ EffectiveConfig(c).kind = "obj"
    \/ EffectiveConfig(c).kind = "model" /\ c.model.to_dict

isinstance_dict(c) == EffectiveConfig(c).kind = "dict"

\* What the body of the `with` statement writes to the config stream.
ConfigBytes(c) ==
    IF hasattr_to_dict(c) THEN json_dumps(EffectiveConfig(c).h)
    ELSE IF isinstance_dict(c) THEN json_dumps(EffectiveConfig(c).h)
    ELSE << >>

\* The config condition made to depend on the tensor artifact's probe.
ShouldWriteConfig_either_missing(c) ==
    (~c.config_file_exists) \/ (~c.weights_file_exists) \/ c.force

ShouldWriteConfig(c) == (~c.config_file_exists) \/ c.force

\* The tensor condition with the probe's result dropped.
ShouldWriteWeights_always(c) == TRUE

\* The tensor condition made to depend on the config artifact's probe.
ShouldWriteWeights_both_missing(c) ==
    ((~c.weights_file_exists) /\ (~c.config_file_exists)) \/ c.force

ShouldWriteWeights(c) == (~c.weights_file_exists) \/ c.force

Busy(p) == pc[p] \notin {"idle", "done", "raised", "killed"}

SaveStart(p, models, forces) ==
    /\ pc[p] = "idle"
    /\ calls < MaxCalls
    /\ \E m \in models, cfg \in ConfigArgs, f \in forces :
         call' = [call EXCEPT ![p] =
                    [BlankCall EXCEPT !.op = "save", !.model = m, !.config = cfg,
                                      !.force = f,
                                      !.start = [a \in Artifacts |-> store[a].present]]]
    /\ pc' = [pc EXCEPT ![p] = "probe_config"]
    /\ calls' = calls + 1
    /\ hist' = [hist EXCEPT !.overlap = @ \/ (\E q \in Procs \ {p} : Busy(q))]
    /\ UNCHANGED << kind, store, ld, prev >>

Raise(p, e) ==
    /\ pc' = [pc EXCEPT ![p] = "raised"]
    /\ call' = [call EXCEPT ![p].err = e]

ProbeConfig(p) ==
    /\ pc[p] = "probe_config"
    /\ \E miss \in MissOutcomes :
         LET r == check_file_exists(store["config"], miss)
         IN  IF r.err # "none" THEN Raise(p, r.err)
             ELSE /\ call' = [call EXCEPT ![p].config_file_exists = r.value,
                                          ![p].seen["config"] = store["config"],
                                          ![p].probed = @ \cup {"config"}]
                  /\ pc' = [pc EXCEPT ![p] = "probe_weights"]
    /\ UNCHANGED << kind, store, ld, prev, hist, calls >>

ProbeWeights(p) ==
    /\ pc[p] = "probe_weights"
    /\ \E miss \in MissOutcomes :
         LET r == check_file_exists(store["tensors"], miss)
         IN  IF r.err # "none" THEN Raise(p, r.err)
             ELSE /\ call' = [call EXCEPT ![p].weights_file_exists = r.value,
                                          ![p].seen["tensors"] = store["tensors"],
                                          ![p].probed = @ \cup {"tensors"}]
                  /\ pc' = [pc EXCEPT ![p] = "config"]
    /\ UNCHANGED << kind, store, ld, prev, hist, calls >>

\* with stream_io.open_stream(config_path, "wb") as f:
OpenConfig(p) ==
    /\ pc[p] = "config"
    /\ config_is_not_None(call[p]) /\ ShouldWriteConfig(call[p])
    /\ store' = [store EXCEPT !["config"] = [present |-> TRUE, data |-> << >>]]
    /\ call' = [call EXCEPT ![p].opened = @ \cup {"config"},
                            ![p].streams = @ \cup {"config"}]
    /\ pc' = [pc EXCEPT ![p] = "config_write"]
    /\ hist' = [hist EXCEPT !.nwrites["config"] = @ + 1]
    /\ UNCHANGED << kind, ld, prev, calls >>

SkipConfig(p) ==
    /\ pc[p] = "config"
    /\ ~(config_is_not_None(call[p]) /\ ShouldWriteConfig(call[p]))
    /\ pc' = [pc EXCEPT ![p] = "weights"]
    /\ UNCHANGED << kind, store, call, ld, prev, hist, calls >>

\* The body of the with statement, and the stream's close.
WriteConfig(p) ==
    /\ pc[p] = "config_write"
    /\ store' = [store EXCEPT !["config"].data = ConfigBytes(call[p])]
    /\ call' = [call EXCEPT ![p].streams = @ \ {"config"}]
    /\ pc' = [pc EXCEPT ![p] = "weights"]
    /\ hist' = [hist EXCEPT !.nempty = IF ConfigBytes(call[p]) = << >> THEN @ + 1 ELSE @]
    /\ UNCHANGED << kind, ld, prev, calls >>

\* ts = TensorSerializer(f"{dir_prefix}.tensors")
OpenWeights(p) ==
    /\ pc[p] = "weights"
    /\ ShouldWriteWeights(call[p])
    /\ store' = [store EXCEPT !["tensors"] = [present |-> TRUE, data |-> << >>]]
    /\ call' = [call EXCEPT ![p].opened = @ \cup {"tensors"},
                            ![p].streams = @ \cup {"tensors"}]
    /\ pc' = [pc EXCEPT ![p] = "write_module"]
    /\ hist' = [hist EXCEPT !.nwrites["tensors"] = @ + 1]
    /\ UNCHANGED << kind, ld, prev, calls >>

SkipWeights(p) ==
    /\ pc[p] = "weights"
    /\ ~ShouldWriteWeights(call[p])
    /\ pc' = [pc EXCEPT ![p] = "done"]
    /\ UNCHANGED << kind, store, call, ld, prev, hist, calls >>

\* ts.write_module(model), the first part of the sequential pass
WriteModuleHead(p) ==
    /\ pc[p] = "write_module"
    /\ store' = [store EXCEPT !["tensors"].data = write_module_head(call[p].model.T)]
    /\ pc' = [pc EXCEPT ![p] = "write_module_rest"]
    /\ UNCHANGED << kind, call, ld, prev, hist, calls >>

\* ts.write_module(model), the rest of the pass
WriteModuleRest(p) ==
    /\ pc[p] = "write_module_rest"
    /\ store' = [store EXCEPT !["tensors"].data = write_module(call[p].model.T)]
    /\ pc' = [pc EXCEPT ![p] = "close"]
    /\ UNCHANGED << kind, call, ld, prev, hist, calls >>

\* ts.close()
CloseWeights(p) ==
    /\ pc[p] = "close"
    /\ call' = [call EXCEPT ![p].streams = @ \ {"tensors"}]
    /\ pc' = [pc EXCEPT ![p] = "done"]
    /\ UNCHANGED << kind, store, ld, prev, hist, calls >>

\* A write on the config stream fails: the with statement closes the
\* stream and the error reaches the caller.
FailConfigWrite(p) ==
    /\ pc[p] = "config_write"
    /\ pc' = [pc EXCEPT ![p] = "raised"]
    /\ call' = [call EXCEPT ![p].err = "StorageIOError",
                            ![p].streams = @ \ {"config"}]
    /\ UNCHANGED << kind, store, ld, prev, hist, calls >>

\* ts.write_module fails: nothing between the constructor and ts.close()
\* catches the error, so close() is not reached.
FailWriteModule(p) ==
    /\ pc[p] \in {"write_module", "write_module_rest"}
    /\ Raise(p, "StorageIOError")
    /\ UNCHANGED << kind, store, ld, prev, hist, calls >>

\* The process running serialize_model is interrupted.
Interrupt(p) ==
    /\ Busy(p)
    /\ call[p].op = "save"
    /\ pc' = [pc EXCEPT ![p] = "killed"]
    /\ UNCHANGED << kind, store, call, ld, prev, hist, calls >>

\* The call has ended; the caller goes on.
Return(p) ==
    /\ pc[p] \in {"done", "raised", "killed"}
    /\ prev' = [op |-> call[p].op, outcome |-> pc[p], model |-> call[p].model,
                config |-> call[p].config, force |-> call[p].force,
                startEmpty |-> \A a \in Artifacts : ~call[p].start[a],
                midwrite |-> call[p].streams # {}]
    /\ pc' = [pc EXCEPT ![p] = "idle"]
    /\ call' = [call EXCEPT ![p] = BlankCall]
    /\ ld' = [ld EXCEPT ![p] = BlankLoad]
    /\ UNCHANGED << kind, store, hist, calls >>

----------------------------------------------------------------------------
(* load_model *)

Slots == {"w1", "b1"}

Uninit == [dtype |-> "none", val |-> 0]

\* A bare `except:` in place of `except ValueError:`.
except_anything(e) == TRUE

\* The `except ValueError` clauses around the two config loads.
except_ValueError(e) == e = "ValueError"

\* Errors config_class.from_pretrained raises on a config it cannot parse.
PretrainedErrors == {"ValueError", "OSError"}

InDirectory(dir, n) == \E i \in 1..Len(dir) : dir[i].name = n

Lookup(dir, n) == dir[CHOOSE i \in 1..Len(dir) : dir[i].name = n]

Cast(t, dtype) ==
    IF dtype = "none" THEN [dtype |-> t.dtype, val |-> t.val]
    ELSE [dtype |-> dtype, val |-> t.val]

\* load_into_module: every slot of the module that the directory names
\* gets the stored tensor; the others stay as they were.
load_into_module(dir, skeleton, dtype) ==
    [n \in Slots |-> IF InDirectory(dir, n) THEN Cast(Lookup(dir, n), dtype)
                     ELSE skeleton[n]]

LoadStart(p) ==
    /\ pc[p] = "idle"
    /\ calls < MaxCalls
    /\ \E cc \in BOOLEAN, dt \in {"none", "f16"} :
         ld' = [ld EXCEPT ![p] = [BlankLoad EXCEPT !.config_class = cc, !.dtype = dt]]
    /\ call' = [call EXCEPT ![p] =
                  [BlankCall EXCEPT !.op = "load",
                                    !.start = [a \in Artifacts |-> store[a].present]]]
    /\ pc' = [pc EXCEPT ![p] = "open_tensors"]
    /\ calls' = calls + 1
    /\ hist' = [hist EXCEPT !.overlap = @ \/ (\E q \in Procs \ {p} : Busy(q))]
    /\ UNCHANGED << kind, store, prev >>

\* tensor_stream = stream_io.open_stream(tensors_uri)
OpenTensors(p) ==
    /\ pc[p] = "open_tensors"
    /\ \E miss \in MissOutcomes :
         LET s == open_stream_rb(store["tensors"], miss)
         IN  IF s.err # "none" THEN Raise(p, s.err)
             ELSE /\ call' = [call EXCEPT ![p].streams = @ \cup {"tensor_stream"}]
                  /\ pc' = [pc EXCEPT ![p] = "deserializer"]
    /\ UNCHANGED << kind, store, ld, prev, hist, calls >>

\* tensor_deserializer = TensorDeserializer(tensor_stream, ..., lazy_load=True)
Deserializer(p) ==
    /\ pc[p] = "deserializer"
    /\ IF directory_valid(store["tensors"].data)
       THEN /\ ld' = [ld EXCEPT ![p].directory = read_directory(store["tensors"].data)]
            /\ pc' = [pc EXCEPT ![p] = "config_first"]
            /\ UNCHANGED call
       ELSE /\ Raise(p, "CorruptArtifact")
            /\ UNCHANGED ld
    /\ UNCHANGED << kind, store, prev, hist, calls >>

FirstFailed(p, e) ==
    IF except_ValueError(e)
    THEN /\ ld' = [ld EXCEPT ![p].first = e]
         /\ pc' = [pc EXCEPT ![p] = "config_fallback"]
         /\ UNCHANGED call
    ELSE /\ ld' = [ld EXCEPT ![p].first = e]
         /\ Raise(p, e)

ConfigLoaded(p, bytes, attempt) ==
    /\ ld' = [ld EXCEPT ![p].have_config = TRUE, ![p].config = json_loads(bytes),
                        ![p].first = IF attempt = 1 THEN "ok" ELSE @]
    /\ pc' = [pc EXCEPT ![p] = "build"]
    /\ UNCHANGED call

\* The try block of the config_class branch: the config artifact is copied
\* to a temporary directory and read with config_class.from_pretrained.
ConfigFirstStructured(p) ==
    /\ pc[p] = "config_first"
    /\ ld[p].config_class
    /\ \E miss \in MissOutcomes, e \in PretrainedErrors :
         LET s == open_stream_rb(store["config"], miss)
         IN  IF s.err # "none" THEN FirstFailed(p, s.err)
             ELSE IF json_valid(s.bytes) THEN ConfigLoaded(p, s.bytes, 1)
             ELSE FirstFailed(p, e)
    /\ UNCHANGED << kind, store, prev, hist, calls >>

\* The try block of the other branch: json.loads of the whole artifact.
ConfigFirstJson(p) ==
    /\ pc[p] = "config_first"
    /\ ~ld[p].config_class
    /\ \E miss \in MissOutcomes :
         LET s == open_stream_rb(store["config"], miss)
         IN  IF s.err # "none" THEN FirstFailed(p, s.err)
             ELSE IF json_valid(s.bytes) THEN ConfigLoaded(p, s.bytes, 1)
             ELSE FirstFailed(p, "ValueError")
    /\ UNCHANGED << kind, store, prev, hist, calls >>

FallbackFailed(p, e) ==
    /\ ld' = [ld EXCEPT ![p].fallbacks = @ + 1, ![p].fallback_err = e]
    /\ Raise(p, e)

\* except ValueError: config = config_class.from_pretrained(config_uri)
FallbackFromPretrained(p) ==
    /\ pc[p] = "config_fallback"
    /\ ld[p].config_class
    /\ \E e \in PretrainedErrors :
         IF store["config"].present /\ json_valid(store["config"].data)
         THEN /\ ld' = [ld EXCEPT ![p].fallbacks = @ + 1, ![p].have_config = TRUE,
                                  ![p].config = json_loads(store["config"].data)]
              /\ pc' = [pc EXCEPT ![p] = "build"]
              /\ UNCHANGED call
         ELSE FallbackFailed(p, e)
    /\ UNCHANGED << kind, store, prev, hist, calls >>

\* except ValueError: with open(config_uri, "r") as f: config = json.load(f)
FallbackJsonLoad(p) ==
    /\ pc[p] = "config_fallback"
    /\ ~ld[p].config_class
    /\ IF ~os_path_exists(store["config"]) THEN FallbackFailed(p, "FileNotFoundError")
       ELSE IF json_valid(store["config"].data)
       THEN /\ ld' = [ld EXCEPT ![p].fallbacks = @ + 1, ![p].have_config = TRUE,
                                ![p].config = json_loads(store["config"].data)]
            /\ pc' = [pc EXCEPT ![p] = "build"]
            /\ UNCHANGED call
       ELSE FallbackFailed(p, "ValueError")
    /\ UNCHANGED << kind, store, prev, hist, calls >>

\* with utils.no_init_or_tensor(): model = config_loader(config)
Build(p) ==
    /\ pc[p] = "build"
    /\ ld' = [ld EXCEPT ![p].built = TRUE, ![p].result = [n \in Slots |-> Uninit]]
    /\ pc' = [pc EXCEPT ![p] = "load_into"]
    /\ UNCHANGED << kind, store, call, prev, hist, calls >>

\* tensor_deserializer.load_into_module(model); return model
LoadInto(p) ==
    /\ pc[p] = "load_into"
    /\ ld' = [ld EXCEPT ![p].bound = TRUE,
                        ![p].result = load_into_module(ld[p].directory, @, ld[p].dtype)]
    /\ pc' = [pc EXCEPT ![p] = "done"]
    /\ UNCHANGED << kind, store, call, prev, hist, calls >>

----------------------------------------------------------------------------
Save(p) ==
    \/ SaveStart(p, Models, BOOLEAN)
    \/ ProbeConfig(p)
    \/ ProbeWeights(p)
    \/ OpenConfig(p)
    \/ SkipConfig(p)
    \/ WriteConfig(p)
    \/ OpenWeights(p)
    \/ SkipWeights(p)
    \/ WriteModuleHead(p)
    \/ WriteModuleRest(p)
    \/ CloseWeights(p)
    \/ FailConfigWrite(p)
    \/ FailWriteModule(p)
    \/ Interrupt(p)
    \/ Return(p)

Load(p) ==
    \/ LoadStart(p)
    \/ OpenTensors(p)
    \/ Deserializer(p)
    \/ ConfigFirstStructured(p)
    \/ ConfigFirstJson(p)
    \/ FallbackFromPretrained(p)
    \/ FallbackJsonLoad(p)
    \/ Build(p)
    \/ LoadInto(p)

\* One caller: save and load calls follow each other.
Next == Save(1) \/ Load(1)

Spec == Init /\ [][Next]_vars

\* Two callers that save to the location with force=False and no lock; the
\* models they save hold the same tensors and differ in having to_dict.
RaceModels == {m \in Models : Len(m.T) = 1}

Race(p) ==
    \/ SaveStart(p, RaceModels, {FALSE})
    \/ ProbeConfig(p)
    \/ ProbeWeights(p)
    \/ OpenConfig(p)
    \/ SkipConfig(p)
    \/ WriteConfig(p)
    \/ OpenWeights(p)
    \/ SkipWeights(p)
    \/ WriteModuleHead(p)
    \/ WriteModuleRest(p)
    \/ CloseWeights(p)
    \/ Return(p)

NextRace == \E p \in Procs : Race(p)

SpecRace == Init /\ [][NextRace]_vars

----------------------------------------------------------------------------
(* Properties *)

Ended(p) == pc[p] \in {"done", "raised"}

ProbeResult(p, a) ==
    IF a = "config" THEN call[p].config_file_exists ELSE call[p].weights_file_exists

FirstByteReadable(f) == f.present /\ Len(f.data) >= 1

\* What one uninterrupted save of c's inputs leaves at an empty location.
SaveResult(c) ==
    [a \in Artifacts |->
       [present |-> TRUE,
        data |-> IF a = "config" THEN ConfigBytes(c) ELSE write_module(c.model.T)]]

StoredTensor(t) == [dtype |-> t.dtype, val |-> t.val]

\* C1: once a completed save has left both artifacts at the location, a
\* further serialize_model call with force=False opens neither artifact for
\* writing.
C1_NoWritesOnceBothExist ==
    \A p \in Procs :
        ( /\ call[p].op = "save"
          /\ ~call[p].force
          /\ prev.op = "save" /\ prev.outcome = "done"
          /\ \A a \in Artifacts : call[p].start[a] )
        => call[p].opened = {}

\* C2: in a save call each artifact is opened for writing only if its own
\* probe reported it absent or force is set, and a call that returns has
\* opened exactly the artifacts for which that holds; the other artifact's
\* probe plays no part.
C2_IndependentWriteConditions ==
    \A p \in Procs :
        call[p].op = "save" =>
            /\ \A a \in call[p].opened : (~ProbeResult(p, a)) \/ call[p].force
            /\ pc[p] = "done" =>
                 \A a \in Artifacts :
                     (a \in call[p].opened) <=> ((~ProbeResult(p, a)) \/ call[p].force)

\* C2 witness: the probes found only the config artifact, force is off, and
\* the call returned having written the tensor artifact alone.
C2_Witness ==
    \E p \in Procs :
        /\ call[p].op = "save" /\ pc[p] = "done" /\ ~call[p].force
        /\ call[p].config_file_exists /\ ~call[p].weights_file_exists
        /\ call[p].opened = {"tensors"}

\* C3: a load with no dtype that follows a completed save of T to a fresh
\* location returns a structure holding T's tensors under T's names.
C3_RoundTrip ==
    \A p \in Procs :
        ( /\ call[p].op = "load" /\ Ended(p)
          /\ ld[p].dtype = "none"
          /\ prev.op = "save" /\ prev.outcome = "done" /\ prev.startEmpty )
        => /\ pc[p] = "done"
           /\ \A i \in 1..Len(prev.model.T) :
                  ld[p].result[prev.model.T[i].name] = StoredTensor(prev.model.T[i])

\* C4: a save with config None of a model without to_dict, to a location
\* without a config artifact, returns with no config artifact at the
\* location and with the tensor artifact written.
C4_ConfigOmitted ==
    \A p \in Procs :
        ( /\ call[p].op = "save" /\ pc[p] = "done"
          /\ call[p].config.kind = "none" /\ ~call[p].model.to_dict
          /\ \A a \in Artifacts : ~call[p].start[a] )
        => /\ ~store["config"].present
           /\ "config" \notin call[p].opened
           /\ store["tensors"].data = write_module(call[p].model.T)

\* C5: the probe reports an artifact as existing exactly when the first
\* byte of its stream can be read.
C5_ProbeIsFirstByte ==
    \A p \in Procs : \A a \in call[p].probed :
        ProbeResult(p, a) = FirstByteReadable(call[p].seen[a])

\* C5 as amended: the probe reports an artifact as existing exactly when it
\* is an existing local path (whatever its length) or the first byte of its
\* stream can be read.
C5_ProbeIsLocalPathOrFirstByte ==
    \A p \in Procs : \A a \in call[p].probed :
        ProbeResult(p, a) =
            ((kind = "local" /\ call[p].seen[a].present)
             \/ FirstByteReadable(call[p].seen[a]))

\* C5 witness: a zero-length local artifact was probed and reported existing.
C5_Witness ==
    \E p \in Procs : \E a \in call[p].probed :
        /\ kind = "local"
        /\ call[p].seen[a].present /\ call[p].seen[a].data = << >>
        /\ ProbeResult(p, a)

\* C6: over force=False calls, each artifact is opened for writing at most
\* once in total.
C6_AtMostOnce == \A a \in Artifacts : hist.nwrites[a] <= 1

\* C6 as amended: as long as no call has started while another was running,
\* the tensor artifact has been opened for writing at most once, and the
\* config artifact at most once more than the number of writes that left it
\* zero-length (at most once at a local location).
C6_AtMostOnceWithoutOverlap ==
    ~hist.overlap =>
        /\ hist.nwrites["tensors"] <= 1
        /\ hist.nwrites["config"] <= hist.nempty + 1
        /\ kind = "local" => hist.nwrites["config"] <= 1

\* C6 witness: two calls ran one after the other, both returned, and each
\* artifact was written once.
C6_Witness ==
    /\ ~hist.overlap
    /\ calls = 2
    /\ prev.op = "save" /\ prev.outcome = "done"
    /\ \E p \in Procs : call[p].op = "save" /\ pc[p] = "done" /\ call[p].opened = {}
    /\ \A a \in Artifacts : hist.nwrites[a] = 1

\* C7: a save to a location holding neither artifact that meets no write
\* failure returns normally with both artifacts written; no probe of a
\* missing artifact aborts it.
C7_MissingArtifactNeverAborts ==
    \A p \in Procs :
        ( /\ call[p].op = "save" /\ Ended(p)
          /\ call[p].err # "StorageIOError"
          /\ \A a \in Artifacts : ~call[p].start[a] )
        => /\ pc[p] = "done"
           /\ call[p].opened = Artifacts

\* C8: a call that has ended with an error holds no open stream.
C8_StreamsReleasedOnError ==
    \A p \in Procs : pc[p] = "raised" => call[p].streams = {}

C10_ResumeCompletes ==
    \A p \in Procs :
        ( /\ call[p].op = "save" /\ pc[p] = "done" /\ ~call[p].force
          /\ prev.op = "save" /\ prev.outcome = "killed" /\ prev.startEmpty
          /\ prev.model = call[p].model /\ prev.config = call[p].config )
        => store = SaveResult(call[p])

\* C10 as amended: the same, for an interruption that came while no stream
\* was open for writing (before, between or after the two writes, not in
\* the middle of one).
C10_ResumeCompletesBetweenWrites ==
    \A p \in Procs :
        ( /\ call[p].op = "save" /\ pc[p] = "done" /\ ~call[p].force
          /\ prev.op = "save" /\ prev.outcome = "killed" /\ prev.startEmpty
          /\ ~prev.midwrite
          /\ prev.model = call[p].model /\ prev.config = call[p].config )
        => store = SaveResult(call[p])

\* C10 witness: the first save was interrupted after the config write and
\* before the tensor write, and the second save wrote the tensors.
C10_Witness ==
    \E p \in Procs :
        /\ call[p].op = "save" /\ pc[p] = "done" /\ ~call[p].force
        /\ prev.op = "save" /\ prev.outcome = "killed" /\ prev.startEmpty
        /\ ~prev.midwrite
        /\ prev.model = call[p].model /\ prev.config = call[p].config
        /\ call[p].start["config"] /\ ~call[p].start["tensors"]
        /\ "tensors" \in call[p].opened
====
